---- MODULE Spec2Model ----
(***************************************************************************)
(* Model of the agent reputation dashboard core (src/index.ts): the        *)
(* ERC-8004 registry reader, the bounty/on-chain aggregator and the        *)
(* time-bounded profile cache behind getAgents.                            *)
(*                                                                         *)
(* Representation.                                                         *)
(*   - A JS string that the code lower-cases or parses is a sequence of    *)
(*     one-character strings (<<"A","b">>); <<>> stands for a falsy        *)
(*     string (undefined or "").                                           *)
(*   - A JS Map is a sequence of [key, value] records with distinct keys,  *)
(*     in insertion order.                                                 *)
(*   - totalEarnings and reward are held as exact multiples of 1/1e6       *)
(*     (the integer numerator over MicroPerUnit), i.e. x micro-units       *)
(*     stands for the number x / 1e6.                                      *)
(***************************************************************************)
EXTENDS Integers, Sequences, FiniteSets, TLC

\* ------------------------------------------------------------------ bounds
MaxBounties == 2
MaxCalls == 2
MaxTicks == 2
MaxRateBounties == 40

\* ------------------------------------------------------- program constants
MicroPerUnit == 1000000
FeedbackKeep == 10
MaxEnumerated == 50
CACHE_TTL == 60000
MantissaBits == 53
Chunk == 13

\* ---------------------------------------------------------------- strings
\* String.prototype.toLowerCase on one character (hex digits of an address).
LowerChar(c) ==
  CASE c = "A" -> "a"
    [] c = "B" -> "b"
    [] c = "C" -> "c"
    [] c = "D" -> "d"
    [] c = "E" -> "e"
    [] c = "F" -> "f"
    [] OTHER -> c

toLowerCase(s) == [i \in DOMAIN s |-> LowerChar(s[i])]

DigitVal(c) ==
  CASE c = "0" -> 0 [] c = "1" -> 1 [] c = "2" -> 2 [] c = "3" -> 3
    [] c = "4" -> 4 [] c = "5" -> 5 [] c = "6" -> 6 [] c = "7" -> 7
    [] c = "8" -> 8 [] c = "9" -> 9

\* Number(s) for a decimal digit string; Number("") is 0.
RECURSIVE Number(_)
Number(s) ==
  IF s = <<>> THEN 0
  ELSE 10 * Number(SubSeq(s, 1, Len(s) - 1)) + DigitVal(s[Len(s)])

\* ----------------------------------------------------------------- JS Map
MapKeys(m) == {m[i].key : i \in DOMAIN m}

MapHas(m, k) == \E i \in DOMAIN m : m[i].key = k

MapGet(m, k) == m[CHOOSE i \in DOMAIN m : m[i].key = k].value

MapSet(m, k, v) ==
  IF MapHas(m, k)
  THEN [i \in DOMAIN m |-> IF m[i].key = k THEN [key |-> k, value |-> v] ELSE m[i]]
  ELSE Append(m, [key |-> k, value |-> v])

MapValues(m) == [i \in DOMAIN m |-> m[i].value]

\* slice(0, n): the first n elements.
SliceFirst(s, n) == IF Len(s) <= n THEN s ELSE SubSeq(s, 1, n)

\* Array.prototype.slice(-n): the last n elements.
SliceLast(s, n) == IF Len(s) <= n THEN s ELSE SubSeq(s, Len(s) - n + 1, Len(s))

\* -------------------------------------------------------- registry reader
\* A settled contract read (one element of Promise.allSettled's result).
RejectedScore == [status |-> "rejected", value |-> 0]

RejectedFeedback == [status |-> "rejected", isArray |-> FALSE, value |-> <<>>]

\* The loop copying the decoded feedback tuples.
FeedbackEntries(list) ==
  [i \in DOMAIN list |->
     [from |-> list[i].from, score |-> list[i].score,
      comment |-> list[i].comment, timestamp |-> list[i].timestamp]]

\* The same reads joined with Promise.all: one rejection loses both.
fetchOnChainReputationJoined(address, reputation, feedback) ==
  IF reputation.status = "fulfilled" /\ feedback.status = "fulfilled"
  THEN [raised |-> FALSE,
        value |-> [address |-> address,
                   reputationScore |-> reputation.value,
                   feedback |-> IF feedback.isArray THEN FeedbackEntries(feedback.value)
                                ELSE <<>>]]
  ELSE [raised |-> FALSE,
        value |-> [address |-> address, reputationScore |-> 0, feedback |-> <<>>]]

\* fetchOnChainReputation, given how its two reads settled. raised tells
\* whether the returned promise rejects.
fetchOnChainReputation(address, reputation, feedback) ==
  [raised |-> FALSE,
   value |-> [address |-> address,
              reputationScore |-> IF reputation.status = "fulfilled"
                                  THEN reputation.value ELSE 0,
              feedback |-> IF feedback.status = "fulfilled" /\ feedback.isArray
                           THEN FeedbackEntries(feedback.value) ELSE <<>>]]

\* ------------------------------------------------------------ enumeration
\* The registry as one enumeration sees it: how the getAgentCount read
\* settles, the indices whose getAgentByIndex read fails, whether index 1
\* holds the address of index 0 in another casing, and whether the
\* reputation reads of the batch fail.
DigitChar(n) ==
  CASE n = 0 -> "0" [] n = 1 -> "1" [] n = 2 -> "2" [] n = 3 -> "3" [] n = 4 -> "4"
    [] n = 5 -> "5" [] n = 6 -> "6" [] n = 7 -> "7" [] n = 8 -> "8" [] n = 9 -> "9"

IndexAddress(i) == <<"A", DigitChar((i \div 10) % 10), DigitChar(i % 10)>>

AgentAddrAt(reg, i) ==
  IF reg.dup /\ i = 1 THEN <<"a", "0", "0">> ELSE IndexAddress(i)

IndexScore(i) == 1 + 3 * (i % 3)

\* Number(countResult), the rejected read being caught as 0n.
AgentCount(countRead) ==
  IF countRead.status = "fulfilled" THEN countRead.value ELSE 0

BatchSizeUnclamped(count) == count

BatchSize(count) == IF count < MaxEnumerated THEN count ELSE MaxEnumerated

\* One task of the batch: getAgentByIndex(i), then fetchOnChainReputation,
\* then reputationMap.set; a failed index read is skipped.
IndexTask(map, reg, i) ==
  IF i \in reg.indexFails THEN map
  ELSE LET agentAddr == AgentAddrAt(reg, i)
           rep == fetchOnChainReputation(
                    agentAddr,
                    IF reg.readsFail THEN RejectedScore
                    ELSE [status |-> "fulfilled", value |-> IndexScore(i)],
                    IF reg.readsFail THEN RejectedFeedback
                    ELSE [status |-> "fulfilled", isArray |-> TRUE, value |-> <<>>])
       IN IF rep.raised THEN map ELSE MapSet(map, toLowerCase(agentAddr), rep.value)

\* The tasks complete in some order; the model lets the batch complete in
\* ascending or in descending index order.
RECURSIVE RunBatch(_, _, _, _, _)
RunBatch(map, reg, done, batchSize, order) ==
  IF done = batchSize THEN map
  ELSE LET next == IndexTask(map, reg, IF order = "ascending" THEN done
                                       ELSE batchSize - 1 - done)
       IN IF Len(next) >= 0 THEN RunBatch(next, reg, done + 1, batchSize, order)
          ELSE next

fetchAllOnChainAgents(reg, order) ==
  LET count == AgentCount(reg.countRead)
  IN IF count > 0 THEN RunBatch(<<>>, reg, 0, BatchSize(count), order) ELSE <<>>

\* The indices whose getAgentByIndex read the call issues.
IndexReadsIssued(reg) ==
  LET count == AgentCount(reg.countRead)
  IN IF count > 0 THEN 0..(BatchSize(count) - 1) ELSE {}

\* ------------------------------------------------------------- aggregator
\* reward of one bounty, in micro-units (the code divides by 1e6).
BountyRewardAnyStatus(b) ==
  IF b.payment.present
  THEN IF b.payment.grossAmount # <<>> THEN Number(b.payment.grossAmount)
       ELSE IF b.payment.grossReward # <<>> THEN Number(b.payment.grossReward)
       ELSE 0
  ELSE 0

BountyReward(b) ==
  IF b.status = "completed" /\ b.payment.present
  THEN IF b.payment.grossAmount # <<>> THEN Number(b.payment.grossAmount)
       ELSE IF b.payment.grossReward # <<>> THEN Number(b.payment.grossReward)
       ELSE 0
  ELSE 0

\* The key of the agents map: the lower-cased address.
AgentKeyRaw(addr) == addr

AgentKey(addr) == toLowerCase(addr)

\* The profile created the first time a claimant is seen.
NewClaimantProfile(addr, onChainData) ==
  LET addrLower == toLowerCase(addr)
      has == MapHas(onChainData, addrLower)
  IN [address |-> addr,
      onChainReputation |-> IF has THEN MapGet(onChainData, addrLower).reputationScore ELSE 0,
      totalEarnings |-> 0,
      bountiesCompleted |-> 0,
      bountiesClaimed |-> 0,
      successRate |-> 0,
      tags |-> <<>>,
      recentFeedback |-> IF has
                         THEN SliceLast(MapGet(onChainData, addrLower).feedback, FeedbackKeep)
                         ELSE <<>>,
      history |-> <<>>]

\* The profile of an on-chain agent that claimed no bounty.
NewOnChainProfile(onChain) ==
  [address |-> onChain.address,
   onChainReputation |-> onChain.reputationScore,
   totalEarnings |-> 0,
   bountiesCompleted |-> 0,
   bountiesClaimed |-> 0,
   successRate |-> 0,
   tags |-> <<>>,
   recentFeedback |-> SliceLast(onChain.feedback, FeedbackKeep),
   history |-> <<>>]

\* agent.tags is a plain object ({}): reading a name it does not own finds
\* what Object.prototype holds under that name. Of those names the model
\* tells apart "constructor" (the function Object) and "__proto__" (the
\* accessor giving Object.prototype).
InheritedNames == {"constructor", "__proto__"}

\* A value of agent.tags: a number (count), or a string (text, as the pieces
\* concatenated).
TagNumber(n) == [isNumber |-> TRUE, count |-> n, text |-> <<>>]

TagString(pieces) == [isNumber |-> FALSE, count |-> 0, text |-> pieces]

\* (agent.tags[tag] || 0) + 1: a number is incremented; a function, an
\* object or a string is truthy and + converts it to a string and appends "1".
TagIncrement(tags, tag) ==
  IF MapHas(tags, tag)
  THEN IF MapGet(tags, tag).isNumber
       THEN TagNumber(MapGet(tags, tag).count + 1)
       ELSE TagString(Append(MapGet(tags, tag).text, "1"))
  ELSE IF tag = "constructor" THEN TagString(<<"function Object() { [native code] }", "1">>)
  ELSE IF tag = "__proto__" THEN TagString(<<"[object Object]", "1">>)
  ELSE TagNumber(1)

\* agent.tags[tag] = ...: the __proto__ setter ignores a string, any other
\* name becomes an own property.
TagAssign(tags, tag) ==
  IF tag = "__proto__" THEN tags ELSE MapSet(tags, tag, TagIncrement(tags, tag))

\* The loop over the tags of one bounty.
RECURSIVE CountTags(_, _)
CountTags(tags, bt) ==
  IF bt = <<>> THEN tags
  ELSE CountTags(TagAssign(tags, Head(bt)), Tail(bt))

\* One iteration of the loop over the bounties.
ApplyBounty(agents, b, onChainData) ==
  IF b.claimedBy = <<>> THEN agents
  ELSE
    LET addrLower == AgentKey(b.claimedBy)
        seeded == IF MapHas(agents, addrLower) THEN agents
                  ELSE MapSet(agents, addrLower, NewClaimantProfile(b.claimedBy, onChainData))
        agent == MapGet(seeded, addrLower)
        reward == BountyReward(b)
        done == b.status = "completed"
    IN MapSet(seeded, addrLower,
         [agent EXCEPT
            !.bountiesClaimed = @ + 1,
            !.bountiesCompleted = IF done THEN @ + 1 ELSE @,
            !.totalEarnings = IF done THEN @ + reward ELSE @,
            !.tags = CountTags(@, b.tags),
            !.history = Append(@, [bountyId |-> b.id,
                                   title |-> IF b.title = "" THEN "Untitled" ELSE b.title,
                                   reward |-> reward,
                                   status |-> b.status,
                                   date |-> b.createdAt])])

\* The loop over the bounties, one iteration at a time: comparing the map
\* after an iteration with the map before it has the iteration evaluated
\* before the next one starts, as the loop runs them.
RECURSIVE FoldBounties(_, _, _)
FoldBounties(agents, bounties, onChainData) ==
  IF bounties = <<>> THEN agents
  ELSE LET after == ApplyBounty(agents, Head(bounties), onChainData)
       IN IF after = agents
          THEN FoldBounties(agents, Tail(bounties), onChainData)
          ELSE FoldBounties(after, Tail(bounties), onChainData)

\* The loop adding the on-chain agents not seen in bounty data.
RECURSIVE AddOnChainOnly(_, _)
AddOnChainOnly(agents, rest) ==
  IF rest = <<>> THEN agents
  ELSE AddOnChainOnly(
         IF MapHas(agents, Head(rest).key) THEN agents
         ELSE MapSet(agents, Head(rest).key, NewOnChainProfile(Head(rest).value)),
         Tail(rest))

\* The ratio taken the wrong way round.
SuccessRateInverted(completed, claimed) ==
  IF completed > 0 THEN (200 * claimed + completed) \div (2 * completed) ELSE 0

\* JS numbers are IEEE 754 doubles. A positive double is held as
\* [mant, exp]: mant its 53 significant bits, most significant first
\* (mant[1] = 1), and exp the binary exponent of mant[1], so that the value
\* is the sum of mant[i] * 2^(exp - i + 1).
Pow2(k) == <<1, 2, 4, 8, 16, 32, 64, 128, 256, 512, 1024, 2048, 4096, 8192>>[k + 1]

\* mant + 1 in the last place.
IncrementMantissa(mant, exp) ==
  IF \A i \in DOMAIN mant : mant[i] = 1
  THEN [mant |-> [i \in DOMAIN mant |-> IF i = 1 THEN 1 ELSE 0], exp |-> exp + 1]
  ELSE LET z == CHOOSE i \in DOMAIN mant :
                  mant[i] = 0 /\ \A j \in DOMAIN mant : j > i => mant[j] = 1
       IN [mant |-> [i \in DOMAIN mant |->
                       IF i < z THEN mant[i] ELSE IF i = z THEN 1 ELSE 0],
           exp |-> exp]

\* Round to nearest, ties to even: bits holds at least MantissaBits + 1
\* significant bits of the exact result, inexact tells whether anything
\* non-zero lies beyond them.
RoundDouble(bits, exp, inexact) ==
  LET keep == SubSeq(bits, 1, MantissaBits)
      guard == bits[MantissaBits + 1]
      sticky == inexact \/ \E i \in (MantissaBits + 2)..Len(bits) : bits[i] = 1
  IN IF guard = 1 /\ (sticky \/ keep[MantissaBits] = 1)
     THEN IncrementMantissa(keep, exp)
     ELSE [mant |-> keep, exp |-> exp]

\* Scale a or b by powers of two until b <= a < 2b.
RECURSIVE Normalize(_, _, _)
Normalize(a, b, exp) ==
  IF a < b THEN Normalize(2 * a, b, exp - 1)
  ELSE IF a >= 2 * b THEN Normalize(a, 2 * b, exp + 1)
  ELSE [a |-> a, b |-> b, exp |-> exp]

\* The first k bits of r / b for r < b, Chunk bits at a step: the bits of
\* the quotient of r * 2^Chunk by b, then those of the remainder.
RECURSIVE QuotientBits(_, _, _)
QuotientBits(r, b, k) ==
  IF k = 0 THEN [bits |-> <<>>, rem |-> r]
  ELSE LET n == IF k < Chunk THEN k ELSE Chunk
           q == (r * Pow2(n)) \div b
           head == [i \in 1..n |-> (q \div Pow2(n - i)) % 2]
           rest == QuotientBits((r * Pow2(n)) % b, b, k - n)
       IN [bits |-> head \o rest.bits, rem |-> rest.rem]

\* a / b for positive integers a and b.
DoubleDivide(a, b) ==
  LET n == Normalize(a, b, 0)
      q == QuotientBits(n.a - n.b, n.b, MantissaBits)
  IN RoundDouble(<<1>> \o q.bits, n.exp, q.rem > 0)

RECURSIVE BitsValue(_)
BitsValue(bits) ==
  IF bits = <<>> THEN 0
  ELSE 2 * BitsValue(SubSeq(bits, 1, Len(bits) - 1)) + bits[Len(bits)]

\* bits * k + carry for a small positive integer k, Chunk bits at a step
\* from the least significant end; the result may start with zeros.
RECURSIVE TimesSmall(_, _, _)
TimesSmall(bits, k, carry) ==
  IF bits = <<>> THEN [i \in 1..Chunk |-> (carry \div Pow2(Chunk - i)) % 2]
  ELSE LET n == IF Len(bits) < Chunk THEN Len(bits) ELSE Chunk
           t == BitsValue(SubSeq(bits, Len(bits) - n + 1, Len(bits))) * k + carry
           low == [i \in 1..n |-> ((t % Pow2(n)) \div Pow2(n - i)) % 2]
       IN TimesSmall(SubSeq(bits, 1, Len(bits) - n), k, t \div Pow2(n)) \o low

\* bits without its leading zeros.
Significant(bits) ==
  LET first == CHOOSE i \in DOMAIN bits : bits[i] = 1 /\ \A j \in 1..(i - 1) : bits[j] = 0
  IN SubSeq(bits, first, Len(bits))

\* x * k for a double x and an integer 2 <= k < 2^Chunk.
DoubleTimes(x, k) ==
  LET product == Significant(TimesSmall(x.mant, k, 0))
  IN RoundDouble(product, x.exp + Len(product) - MantissaBits, FALSE)

\* Math.round(x) for a double 0 < x < 2^52: the nearest integer, halves up.
MathRound(x) ==
  IF x.exp < -1 THEN 0
  ELSE IF x.exp = -1 THEN 1
  ELSE BitsValue(SubSeq(x.mant, 1, x.exp + 1)) + x.mant[x.exp + 2]

\* Math.round((completed / claimed) * 100) for positive counts.
RoundedPercent(completed, claimed) ==
  MathRound(DoubleTimes(DoubleDivide(completed, claimed), 100))

\* RoundedPercent for the counts a list of MaxRateBounties + 1 bounties can
\* give, computed once.
RoundedPercentTable ==
  [claimed \in 1..(MaxRateBounties + 1) |->
     [completed \in 1..claimed |-> RoundedPercent(completed, claimed)]]

\* agent.bountiesClaimed > 0 ? Math.round(...) : 0
SuccessRate(completed, claimed) ==
  IF claimed > 0
  THEN IF completed = 0 THEN 0
       ELSE IF completed <= claimed /\ claimed <= MaxRateBounties + 1
       THEN RoundedPercentTable[claimed][completed]
       ELSE RoundedPercent(completed, claimed)
  ELSE 0

WithRates(profiles) ==
  [i \in DOMAIN profiles |->
     [profiles[i] EXCEPT !.successRate =
        SuccessRate(profiles[i].bountiesCompleted, profiles[i].bountiesClaimed)]]

\* The sort comparator: negative when a goes first.
CompareAgentsNoTieBreak(a, b) == b.onChainReputation - a.onChainReputation

CompareAgents(a, b) ==
  IF b.onChainReputation - a.onChainReputation # 0
  THEN b.onChainReputation - a.onChainReputation
  ELSE b.totalEarnings - a.totalEarnings

\* Array.prototype.sort is stable: e goes after every element not after it.
RECURSIVE InsertSorted(_, _)
InsertSorted(sorted, e) ==
  IF sorted = <<>> THEN <<e>>
  ELSE IF CompareAgents(Head(sorted), e) <= 0
       THEN <<Head(sorted)>> \o InsertSorted(Tail(sorted), e)
       ELSE <<e>> \o sorted

RECURSIVE SortAgents(_)
SortAgents(s) ==
  IF s = <<>> THEN <<>>
  ELSE InsertSorted(SortAgents(SubSeq(s, 1, Len(s) - 1)), s[Len(s)])

\* The profiles as they stand before the final sort.
aggregateAgentsUnsorted(bounties, onChainData) ==
  WithRates(MapValues(
    AddOnChainOnly(FoldBounties(<<>>, bounties, onChainData), onChainData)))

aggregateAgents(bounties, onChainData) ==
  SortAgents(WithRates(MapValues(
    AddOnChainOnly(FoldBounties(<<>>, bounties, onChainData), onChainData))))

\* ------------------------------------------------------------------ cache
\* The guard of getAgents: a stored set younger than CACHE_TTL is returned.
\* (An empty array is truthy: stored is "cachedAgents is not null".)
CacheFreshInclusive(cached, time, clock) == cached.stored /\ clock - time <= CACHE_TTL

CacheFresh(cached, time, clock) == cached.stored /\ clock - time < CACHE_TTL

\* bountiesRes.value.filter((b) => b.title)
RECURSIVE FilterTitled(_)
FilterTitled(list) ==
  IF list = <<>> THEN <<>>
  ELSE (IF Head(list).title # "" THEN <<Head(list)>> ELSE <<>>) \o FilterTitled(Tail(list))

\* How the bounty request settled: kind "array" is a JSON array (list),
\* "notArray" any other JSON value, "notJSON" a body r.json() rejects,
\* "networkError" a rejected fetch.
BountiesRejected(res) == res.kind \in {"networkError", "notJSON"}

\* Calling .filter on a fulfilled value that is no array throws a TypeError.
FilterThrows(res) == res.kind = "notArray"

BountiesOf(res) == IF BountiesRejected(res) THEN <<>> ELSE FilterTitled(res.list)

\* new Set(bounties.filter(claimedBy).map(lower-case)), in insertion order.
RECURSIVE UniqueAddresses(_, _)
UniqueAddresses(seen, bounties) ==
  IF bounties = <<>> THEN seen
  ELSE LET b == Head(bounties)
           k == toLowerCase(b.claimedBy)
       IN UniqueAddresses(
            IF b.claimedBy = <<>> \/ \E i \in DOMAIN seen : seen[i] = k THEN seen
            ELSE Append(seen, k),
            Tail(bounties))

\* The addresses the backfill loop reads: those the map does not hold.
RECURSIVE MissingAddresses(_, _)
MissingAddresses(addrs, onChain) ==
  IF addrs = <<>> THEN <<>>
  ELSE (IF MapHas(onChain, Head(addrs)) THEN <<>> ELSE <<Head(addrs)>>)
       \o MissingAddresses(Tail(addrs), onChain)

\* The same .then without its test: every result is stored.
BackfillOneAlways(onChain, addr, read) ==
  LET rep == fetchOnChainReputation(addr, read.score, read.feedback)
  IN IF ~rep.raised THEN MapSet(onChain, addr, rep.value) ELSE onChain

\* The .then of one backfill read.
BackfillOne(onChain, addr, read) ==
  LET rep == fetchOnChainReputation(addr, read.score, read.feedback)
  IN IF ~rep.raised /\ (rep.value.reputationScore > 0 \/ Len(rep.value.feedback) > 0)
     THEN MapSet(onChain, addr, rep.value)
     ELSE onChain

\* All backfill reads, completing in ascending or descending order.
RECURSIVE BackfillAll(_, _, _, _, _)
BackfillAll(onChain, missing, reads, done, order) ==
  IF done = Len(missing) THEN onChain
  ELSE LET i == IF order = "ascending" THEN done + 1 ELSE Len(missing) - done
       IN BackfillAll(BackfillOne(onChain, missing[i], reads[i]),
                      missing, reads, done + 1, order)

\* ----------------------------------------------------------------- server
ApiError(path) == [path |-> path, hit |-> FALSE, status |-> 502, body |-> <<>>]

\* agents.find((a) => a.address.toLowerCase() === addr.toLowerCase())
FindAgent(agents, addr) ==
  {i \in DOMAIN agents :
     /\ toLowerCase(agents[i].address) = toLowerCase(addr)
     /\ \A j \in 1..(i - 1) : toLowerCase(agents[j].address) # toLowerCase(addr)}

\* The response of /api/agents and of /api/agent/:address once getAgents
\* has returned agents.
Respond(path, hit, agents) ==
  IF path.endpoint = "agents"
  THEN [path |-> path, hit |-> hit, status |-> 200, body |-> agents]
  ELSE IF FindAgent(agents, path.addr) = {}
  THEN [path |-> path, hit |-> hit, status |-> 404, body |-> <<>>]
  ELSE [path |-> path, hit |-> hit, status |-> 200,
        body |-> <<agents[CHOOSE i \in FindAgent(agents, path.addr) : TRUE]>>]

\* ----------------------------------------------------------------- inputs
Addresses == {<<"A", "b">>, <<"a", "b">>, <<"c", "D">>}

NoPayment == [present |-> FALSE, grossAmount |-> <<>>, grossReward |-> <<>>]

Payments ==
  {NoPayment,
   [present |-> TRUE, grossAmount |-> <<"5","0","0","0","0","0","0">>, grossReward |-> <<>>],
   [present |-> TRUE, grossAmount |-> <<>>, grossReward |-> <<"2","5","0","0","0","0","0">>],
   [present |-> TRUE, grossAmount |-> <<"3","0","0","0","0","0","0">>,
                      grossReward |-> <<"2","5","0","0","0","0","0">>]}

Statuses == {"completed", "claimed"}

Bounties ==
  [id : {"1"}, title : {"Fix bug"}, status : Statuses, tags : {<<>>},
   claimedBy : Addresses \cup {<<>>}, createdAt : {""}, payment : Payments]

Feedbacks == {<<>>}

OnChainEntries ==
  [address : {<<"A", "b">>, <<"e", "F">>}, reputationScore : {0, 3, 7}, feedback : Feedbacks]

\* Bounties with tags: none, one, a repeated one, a name every object
\* inherits.
TagLists == {<<>>, <<"rust">>, <<"ts", "rust", "ts">>, <<"constructor">>, <<"__proto__">>}

TaggedBounties ==
  [id : {"1"}, title : {"Fix bug"}, status : Statuses, tags : TagLists,
   claimedBy : {<<"A", "b">>, <<"a", "b">>}, createdAt : {""}, payment : {NoPayment}]

RateBounties ==
  [id : {"1"}, title : {"Fix bug"}, status : Statuses, tags : {<<>>},
   claimedBy : {<<"a", "b">>}, createdAt : {""}, payment : {NoPayment}]

\* Outcomes of getReputation and getFeedback.
ScoreReads == {RejectedScore} \cup [status : {"fulfilled"}, value : {0, 3, 7}]

FeedbackEntry(t) == [from |-> <<"e", "F">>, score |-> 1, comment |-> "ok", timestamp |-> t]

FeedbackLists ==
  {<<>>, <<FeedbackEntry(1)>>, [i \in 1..(FeedbackKeep + 1) |-> FeedbackEntry(i)]}

FeedbackReads ==
  {RejectedFeedback, [status |-> "fulfilled", isArray |-> FALSE, value |-> <<>>]}
    \cup [status : {"fulfilled"}, isArray : {TRUE}, value : FeedbackLists]

\* On-chain entries with no, one and more than FeedbackKeep feedback entries.
SeededEntries ==
  [address : {<<"A", "b">>, <<"e", "F">>}, reputationScore : {42},
   feedback : FeedbackLists]

PendingScore == [status |-> "pending", value |-> 0]

PendingFeedback == [status |-> "pending", isArray |-> FALSE, value |-> <<>>]

NoReputation == [address |-> <<>>, reputationScore |-> 0, feedback |-> <<>>]

CompletionOrders == {"ascending", "descending"}

\* The orders in which n concurrent tasks may complete (one when n < 2).
OrdersOf(n) == IF n > 1 THEN CompletionOrders ELSE {"ascending"}

CountReads ==
  {RejectedScore} \cup
    [status : {"fulfilled"},
     value : {0, 1, 2, MaxEnumerated - 1, MaxEnumerated, MaxEnumerated + 1}]

Registries ==
  [countRead : CountReads, indexFails : SUBSET {0, 1, MaxEnumerated - 1},
   dup : BOOLEAN, readsFail : BOOLEAN]

NoRegistry ==
  [countRead |-> PendingScore, indexFails |-> {}, dup |-> FALSE, readsFail |-> FALSE]

\* What the server's collaborators may answer.
Paid == [present |-> TRUE, grossAmount |-> <<"5","0","0","0","0","0","0">>, grossReward |-> <<>>]

TitledBounty ==
  [id |-> "1", title |-> "Fix bug", status |-> "completed", tags |-> <<"rust">>,
   claimedBy |-> <<"c", "D">>, createdAt |-> "", payment |-> Paid]

UntitledBounty ==
  [id |-> "2", title |-> "", status |-> "completed", tags |-> <<>>,
   claimedBy |-> <<"A", "0", "0">>, createdAt |-> "", payment |-> Paid]

\* How the bounty request may settle.
BountyResponses ==
  [kind : {"networkError", "notJSON", "notArray"}, list : {<<>>}]
    \cup [kind : {"array"},
          list : {<<>>, <<TitledBounty>>, <<UntitledBounty, TitledBounty>>}]

ServerRegistries ==
  [countRead : {RejectedScore, [status |-> "fulfilled", value |-> 1]},
   indexFails : {{}}, dup : {FALSE}, readsFail : {FALSE}]

BackfillReads ==
  {[score |-> RejectedScore, feedback |-> RejectedFeedback],
   [score |-> [status |-> "fulfilled", value |-> 3],
    feedback |-> [status |-> "fulfilled", isArray |-> TRUE, value |-> <<>>]]}

Paths ==
  {[endpoint |-> "agents", addr |-> <<>>],
   [endpoint |-> "agent", addr |-> <<"a", "0", "0">>]}

\* What the backfill step may be given: a bounty array of titled and
\* untitled bounties claimed under several casings, an enumerated map, and
\* how each individual read settles.
BackfillBounties ==
  [id : {"1"}, title : {"Fix bug", ""}, status : {"completed"}, tags : {<<>>},
   claimedBy : Addresses \cup {<<>>}, createdAt : {""}, payment : {Paid}]

BackfillLists == UNION {[1..n -> BackfillBounties] : n \in 0..MaxBounties}

EnumeratedMaps ==
  {<<>>,
   <<[key |-> <<"a", "b">>,
      value |-> [address |-> <<"A", "b">>, reputationScore |-> 7, feedback |-> <<>>]]>>}

BackfillOutcomes ==
  {[score |-> RejectedScore, feedback |-> RejectedFeedback],
   [score |-> RejectedScore,
    feedback |-> [status |-> "fulfilled", isArray |-> TRUE, value |-> <<FeedbackEntry(1)>>]],
   [score |-> [status |-> "fulfilled", value |-> 0],
    feedback |-> [status |-> "fulfilled", isArray |-> TRUE, value |-> <<>>]],
   [score |-> [status |-> "fulfilled", value |-> 0],
    feedback |-> [status |-> "fulfilled", isArray |-> TRUE, value |-> <<FeedbackEntry(1)>>]],
   [score |-> [status |-> "fulfilled", value |-> 3], feedback |-> RejectedFeedback]}

PendingRead == [score |-> PendingScore, feedback |-> PendingFeedback]

CallIds == 1..MaxCalls

TickSteps == {1, CACHE_TTL - 1}

NoPath == [endpoint |-> "", addr |-> <<>>]

NoResponse == [path |-> NoPath, hit |-> FALSE, status |-> 0, body |-> <<>>]

IdleCall == [pc |-> "idle", bounties |-> <<>>, onChain |-> <<>>]

\* ------------------------------------------------------------------ state
VARIABLES aggBounties, aggOnChain, aggResult, aggDone,
          repPhase, repAddress, repScoreRead, repFeedbackRead, repResult,
          enumPhase, enumReg, enumIndexReads, enumMap,
          now, ticks, cachedAgents, cacheTime, lastStoreAt, calls, lastResponse,
          published, startOrder, olderThanCache,
          bfPhase, bfBounties, bfEnumerated, bfIssued, bfReads, bfOnChain, bfResult

aggVars == <<aggBounties, aggOnChain, aggResult, aggDone>>
repVars == <<repPhase, repAddress, repScoreRead, repFeedbackRead, repResult>>
enumVars == <<enumPhase, enumReg, enumIndexReads, enumMap>>
srvVars == <<now, ticks, cachedAgents, cacheTime, lastStoreAt, calls, lastResponse,
             published, startOrder, olderThanCache>>
bfVars == <<bfPhase, bfBounties, bfEnumerated, bfIssued, bfReads, bfOnChain, bfResult>>
orderVars == <<startOrder, olderThanCache>>
vars == <<aggVars, repVars, enumVars, srvVars, bfVars>>

RepInit ==
  /\ repPhase = "idle"
  /\ repAddress = <<>>
  /\ repScoreRead = PendingScore
  /\ repFeedbackRead = PendingFeedback
  /\ repResult = [raised |-> FALSE, value |-> NoReputation]

EnumInit ==
  /\ enumPhase = "idle"
  /\ enumReg = NoRegistry
  /\ enumIndexReads = {}
  /\ enumMap = <<>>

\* The module-level cache (cachedAgents = null, cacheTime = 0), the clock
\* behind Date.now(), the getAgents calls in progress and the last response
\* sent. lastStoreAt records when the cache was last stored, published the
\* filtered bounty list and the backfilled map the stored set was computed
\* from, startOrder the calls in progress in the order they started, and
\* olderThanCache those of them that started before the refresh whose result
\* is stored.
SrvInit ==
  /\ now = 0
  /\ ticks = 0
  /\ cachedAgents = [stored |-> FALSE, agents |-> <<>>]
  /\ cacheTime = 0
  /\ lastStoreAt = 0
  /\ calls = [c \in CallIds |-> IdleCall]
  /\ lastResponse = NoResponse
  /\ published = [bounties |-> <<>>, onChain |-> <<>>]
  /\ startOrder = <<>>
  /\ olderThanCache = {}

AggInit ==
  /\ aggBounties = <<>>
  /\ aggOnChain = <<>>
  /\ aggResult = <<>>
  /\ aggDone = FALSE

BackfillInit ==
  /\ bfPhase = "idle"
  /\ bfBounties = <<>>
  /\ bfEnumerated = <<>>
  /\ bfIssued = <<>>
  /\ bfReads = <<>>
  /\ bfOnChain = <<>>
  /\ bfResult = <<>>

Init == AggInit /\ RepInit /\ EnumInit /\ SrvInit /\ BackfillInit

\* The same call on bounties that carry tags and on-chain entries that carry
\* feedback.
ProfileAddBounty ==
  /\ ~aggDone
  /\ Len(aggBounties) < MaxBounties
  /\ \E b \in TaggedBounties : aggBounties' = Append(aggBounties, b)
  /\ UNCHANGED <<aggOnChain, aggResult, aggDone, repVars, enumVars, srvVars, bfVars>>

ProfileAddOnChain ==
  /\ ~aggDone
  /\ \E e \in SeededEntries :
       /\ ~MapHas(aggOnChain, toLowerCase(e.address))
       /\ aggOnChain' = MapSet(aggOnChain, toLowerCase(e.address), e)
  /\ UNCHANGED <<aggBounties, aggResult, aggDone, repVars, enumVars, srvVars, bfVars>>

\* The caller builds the bounty list ...
AggAddBounty ==
  /\ ~aggDone
  /\ Len(aggBounties) < MaxBounties
  /\ \E b \in Bounties : aggBounties' = Append(aggBounties, b)
  /\ UNCHANGED <<aggOnChain, aggResult, aggDone, repVars, enumVars, srvVars, bfVars>>

\* ... and the on-chain map, keyed by lower-cased address ...
AggAddOnChain ==
  /\ ~aggDone
  /\ \E e \in OnChainEntries :
       /\ ~MapHas(aggOnChain, toLowerCase(e.address))
       /\ aggOnChain' = MapSet(aggOnChain, toLowerCase(e.address), e)
  /\ UNCHANGED <<aggBounties, aggResult, aggDone, repVars, enumVars, srvVars, bfVars>>

\* ... and calls aggregateAgents.
AggRun ==
  /\ ~aggDone
  /\ aggResult' = aggregateAgents(aggBounties, aggOnChain)
  /\ aggDone' = TRUE
  /\ UNCHANGED <<aggBounties, aggOnChain, repVars, enumVars, srvVars, bfVars>>

AggNext == AggAddBounty \/ AggAddOnChain \/ AggRun

SpecAggregate == Init /\ [][AggNext]_vars

\* The same call on long lists of bounties of one claimant, which differ in
\* their status only; the list holds the bounties of one status before those
\* of the other.
RateAddBounty ==
  /\ ~aggDone
  /\ Len(aggBounties) < MaxRateBounties
  /\ \E b \in RateBounties :
       /\ \A i \in 2..Len(aggBounties) :
            aggBounties[i].status # aggBounties[1].status => b.status = aggBounties[i].status
       /\ aggBounties' = Append(aggBounties, b)
  /\ UNCHANGED <<aggOnChain, aggResult, aggDone, repVars, enumVars, srvVars, bfVars>>

RateNext == RateAddBounty \/ AggRun

SpecRate == Init /\ [][RateNext]_vars

ProfileNext == ProfileAddBounty \/ ProfileAddOnChain \/ AggRun

SpecProfile == Init /\ [][ProfileNext]_vars

\* ------------------------------------------- fetchOnChainReputation alone
\* The call issues both reads at once ...
RepCall ==
  /\ repPhase = "idle"
  /\ \E a \in Addresses : repAddress' = a
  /\ repPhase' = "reading"
  /\ UNCHANGED <<repScoreRead, repFeedbackRead, repResult, aggVars, enumVars, srvVars, bfVars>>

\* ... each settles on its own, in either order ...
RepScoreSettles ==
  /\ repPhase = "reading"
  /\ repScoreRead = PendingScore
  /\ \E r \in ScoreReads : repScoreRead' = r
  /\ UNCHANGED <<repPhase, repAddress, repFeedbackRead, repResult, aggVars, enumVars, srvVars, bfVars>>

RepFeedbackSettles ==
  /\ repPhase = "reading"
  /\ repFeedbackRead = PendingFeedback
  /\ \E r \in FeedbackReads : repFeedbackRead' = r
  /\ UNCHANGED <<repPhase, repAddress, repScoreRead, repResult, aggVars, enumVars, srvVars, bfVars>>

\* ... and the function resumes once both have settled.
RepReturn ==
  /\ repPhase = "reading"
  /\ repScoreRead # PendingScore
  /\ repFeedbackRead # PendingFeedback
  /\ repResult' = fetchOnChainReputation(repAddress, repScoreRead, repFeedbackRead)
  /\ repPhase' = "done"
  /\ UNCHANGED <<repAddress, repScoreRead, repFeedbackRead, aggVars, enumVars, srvVars, bfVars>>

RepNext == RepCall \/ RepScoreSettles \/ RepFeedbackSettles \/ RepReturn

SpecReputation == Init /\ [][RepNext]_vars

\* -------------------------------------------- fetchAllOnChainAgents alone
\* The call issues the getAgentCount read.
EnumCall ==
  /\ enumPhase = "idle"
  /\ enumPhase' = "counting"
  /\ UNCHANGED <<enumReg, enumIndexReads, enumMap, aggVars, repVars, srvVars, bfVars>>

\* The count read settles; a positive count launches the batch of index
\* tasks, anything else returns the empty map.
EnumCountSettles ==
  /\ enumPhase = "counting"
  /\ \E reg \in Registries :
       /\ enumReg' = reg
       /\ enumIndexReads' = IndexReadsIssued(reg)
       /\ enumPhase' = IF AgentCount(reg.countRead) > 0 THEN "batch" ELSE "done"
  /\ UNCHANGED <<enumMap, aggVars, repVars, srvVars, bfVars>>

\* Promise.allSettled over the batch resolves and the map is returned.
EnumBatchSettles ==
  /\ enumPhase = "batch"
  /\ \E order \in OrdersOf(Cardinality(enumIndexReads)) :
       enumMap' = fetchAllOnChainAgents(enumReg, order)
  /\ enumPhase' = "done"
  /\ UNCHANGED <<enumReg, enumIndexReads, aggVars, repVars, srvVars, bfVars>>

EnumNext == EnumCall \/ EnumCountSettles \/ EnumBatchSettles

SpecEnumerate == Init /\ [][EnumNext]_vars

\* ------------------------------------------- the backfill step of getAgents
\* Both top-level requests have settled: the bounty array is filtered, the
\* distinct claimants are collected and one read is issued for each of them
\* that the enumerated map does not hold.
BackfillStart ==
  /\ bfPhase = "idle"
  /\ \E list \in BackfillLists, map \in EnumeratedMaps :
       LET bounties == BountiesOf([kind |-> "array", list |-> list])
           missing == MissingAddresses(UniqueAddresses(<<>>, bounties), map)
       IN /\ bfBounties' = bounties
          /\ bfEnumerated' = map
          /\ bfOnChain' = map
          /\ bfIssued' = missing
          /\ bfReads' = [i \in DOMAIN missing |-> PendingRead]
  /\ bfPhase' = "reading"
  /\ UNCHANGED <<bfResult, aggVars, repVars, enumVars, srvVars>>

\* One of the reads settles, in any order, and its .then runs.
BackfillReadSettles ==
  /\ bfPhase = "reading"
  /\ \E i \in DOMAIN bfIssued, read \in BackfillOutcomes :
       /\ bfReads[i] = PendingRead
       /\ bfReads' = [bfReads EXCEPT ![i] = read]
       /\ bfOnChain' = BackfillOne(bfOnChain, bfIssued[i], read)
  /\ UNCHANGED <<bfPhase, bfBounties, bfEnumerated, bfIssued, bfResult,
                 aggVars, repVars, enumVars, srvVars>>

\* Promise.allSettled over the reads resolves and the aggregation runs.
BackfillFinish ==
  /\ bfPhase = "reading"
  /\ \A i \in DOMAIN bfIssued : bfReads[i] # PendingRead
  /\ bfResult' = aggregateAgents(bfBounties, bfOnChain)
  /\ bfPhase' = "done"
  /\ UNCHANGED <<bfBounties, bfEnumerated, bfIssued, bfReads, bfOnChain,
                 aggVars, repVars, enumVars, srvVars>>

BackfillNext == BackfillStart \/ BackfillReadSettles \/ BackfillFinish

SpecBackfill == Init /\ [][BackfillNext]_vars

\* ------------------------------------------------------------- the server

otherVars == <<aggVars, repVars, enumVars, bfVars>>

\* The calls in progress without c, in start order.
Without(order, c) == SelectSeq(order, LAMBDA d : d # c)

\* The calls in progress that started before c did.
StartedBefore(order, c) ==
  {order[i] : i \in {j \in DOMAIN order : \E k \in DOMAIN order : k > j /\ order[k] = c}}

\* A request reaches getAgents: a fresh cache is returned and answered at
\* once, else the bounty request and the enumeration are launched and the
\* call awaits both. The path of the request is read when the response is
\* built and plays no part before.
RequestStep(c) ==
  /\ calls[c].pc = "idle"
  /\ IF CacheFresh(cachedAgents, cacheTime, now)
     THEN /\ \E path \in Paths : lastResponse' = Respond(path, TRUE, cachedAgents.agents)
          /\ calls' = calls
     ELSE /\ calls' = [calls EXCEPT ![c].pc = "fetching"]
          /\ lastResponse' = lastResponse
  /\ UNCHANGED <<now, ticks, cachedAgents, cacheTime, lastStoreAt, published, otherVars>>

\* Both top-level requests have settled: the bounty list is filtered, the
\* missing claimants are computed and their backfill reads launched. A
\* fulfilled bounty value without .filter throws out of getAgents, and the
\* handler answers 502.
TopLevelSettleStep(c) ==
  /\ calls[c].pc = "fetching"
  /\ \E res \in BountyResponses, reg \in ServerRegistries :
     \E order \in OrdersOf(Cardinality(IndexReadsIssued(reg))) :
       IF FilterThrows(res)
       THEN /\ calls' = [calls EXCEPT ![c] = IdleCall]
            /\ \E path \in Paths : lastResponse' = ApiError(path)
       ELSE /\ calls' = [calls EXCEPT ![c].pc = "backfill",
                                      ![c].bounties = BountiesOf(res),
                                      ![c].onChain = fetchAllOnChainAgents(reg, order)]
            /\ lastResponse' = lastResponse
  /\ UNCHANGED <<now, ticks, cachedAgents, cacheTime, lastStoreAt, published, otherVars>>

\* The backfill reads have settled: aggregate, store, stamp, return, answer.
BackfillSettleStep(c) ==
  /\ calls[c].pc = "backfill"
  /\ LET missing == MissingAddresses(UniqueAddresses(<<>>, calls[c].bounties),
                                     calls[c].onChain)
     IN \E reads \in [DOMAIN missing -> BackfillReads], order \in OrdersOf(Len(missing)),
           path \in Paths :
          LET onChain == BackfillAll(calls[c].onChain, missing, reads, 0, order)
              agents == aggregateAgents(calls[c].bounties, onChain)
          IN /\ cachedAgents' = [stored |-> TRUE, agents |-> agents]
             /\ cacheTime' = now
             /\ lastStoreAt' = now
             /\ lastResponse' = Respond(path, FALSE, agents)
             /\ published' = [bounties |-> calls[c].bounties, onChain |-> onChain]
  /\ calls' = [calls EXCEPT ![c] = IdleCall]
  /\ UNCHANGED <<now, ticks, otherVars>>

Request(c) == RequestStep(c) /\ UNCHANGED orderVars

TopLevelSettle(c) == TopLevelSettleStep(c) /\ UNCHANGED orderVars

BackfillSettle(c) == BackfillSettleStep(c) /\ UNCHANGED orderVars

\* Time passes.
Tick ==
  /\ ticks < MaxTicks
  /\ \E d \in TickSteps : now' = now + d
  /\ ticks' = ticks + 1
  /\ UNCHANGED <<cachedAgents, cacheTime, lastStoreAt, calls, lastResponse,
                 published, orderVars, otherVars>>

Next ==
  \/ \E c \in CallIds : Request(c)
  \/ \E c \in CallIds : TopLevelSettle(c)
  \/ \E c \in CallIds : BackfillSettle(c)
  \/ Tick

Spec == Init /\ [][Next]_vars

\* Every read a refresh issues eventually settles.  The second conjunct is
\* WF_vars(BackfillSettle(c)) written out: the step is enabled exactly while
\* the call awaits its backfill reads.
SpecLive ==
  /\ Spec
  /\ \A c \in CallIds :
       /\ WF_vars(TopLevelSettle(c))
       /\ \/ []<>(calls[c].pc # "backfill")
          \/ []<><<BackfillSettle(c)>>_vars

\* The same server with the order in which the calls in progress started.
OrderedRequest(c) ==
  /\ RequestStep(c)
  /\ startOrder' = IF calls'[c].pc = "fetching" THEN Append(startOrder, c) ELSE startOrder
  /\ olderThanCache' = olderThanCache

OrderedTopLevelSettle(c) ==
  /\ TopLevelSettleStep(c)
  /\ IF calls'[c].pc = "idle"
     THEN /\ startOrder' = Without(startOrder, c)
          /\ olderThanCache' = olderThanCache \ {c}
     ELSE UNCHANGED orderVars

OrderedBackfillSettle(c) ==
  /\ BackfillSettleStep(c)
  /\ startOrder' = Without(startOrder, c)
  /\ olderThanCache' = StartedBefore(startOrder, c)

OrderedNext ==
  \/ \E c \in CallIds : OrderedRequest(c)
  \/ \E c \in CallIds : OrderedTopLevelSettle(c)
  \/ \E c \in CallIds : OrderedBackfillSettle(c)
  \/ Tick

SpecOrdered == Init /\ [][OrderedNext]_vars

\* ----------------------------------------------------- aggregator claims
Claimants(bounties) ==
  {toLowerCase(bounties[i].claimedBy) :
     i \in {j \in DOMAIN bounties : bounties[j].claimedBy # <<>>}}

ProfilesOf(result, k) == {i \in DOMAIN result : toLowerCase(result[i].address) = k}

\* C3: every address that is a non-empty claimedBy of the bounty list or a key
\* of the on-chain map appears exactly once, compared case-insensitively, in
\* the output of aggregateAgents, and the output holds no other address.
C3_EachAddressOnce ==
  aggDone =>
    LET want == Claimants(aggBounties) \cup MapKeys(aggOnChain)
    IN /\ \A k \in want : Cardinality(ProfilesOf(aggResult, k)) = 1
       /\ \A i \in DOMAIN aggResult : toLowerCase(aggResult[i].address) \in want

\* Two bounties claimed under two casings of one address that is also a key of
\* the on-chain map, next to another address.
C3_Witness ==
  /\ aggDone
  /\ \E i, j \in DOMAIN aggBounties :
       /\ aggBounties[i].claimedBy # <<>>
       /\ aggBounties[i].claimedBy # aggBounties[j].claimedBy
       /\ toLowerCase(aggBounties[i].claimedBy) = toLowerCase(aggBounties[j].claimedBy)
       /\ MapHas(aggOnChain, toLowerCase(aggBounties[i].claimedBy))
  /\ Len(aggResult) = 2

\* C4: the output is ordered descending by (onChainReputation, totalEarnings).
C4_SortedDescending ==
  aggDone =>
    \A i, j \in DOMAIN aggResult :
      i < j =>
        /\ aggResult[i].onChainReputation >= aggResult[j].onChainReputation
        /\ (aggResult[i].onChainReputation = aggResult[j].onChainReputation
              => aggResult[i].totalEarnings >= aggResult[j].totalEarnings)

\* The sort had work to do: the profiles were created in another order, and
\* the output holds a strict step in reputation and a tie broken by earnings.
C4_Witness ==
  /\ aggDone
  /\ aggResult #
       WithRates(MapValues(
         AddOnChainOnly(FoldBounties(<<>>, aggBounties, aggOnChain), aggOnChain)))
  /\ \E i, j \in DOMAIN aggResult :
       /\ i < j
       /\ aggResult[i].onChainReputation > aggResult[j].onChainReputation
  /\ \E i, j \in DOMAIN aggResult :
       /\ i < j
       /\ aggResult[i].onChainReputation = aggResult[j].onChainReputation
       /\ aggResult[i].totalEarnings > aggResult[j].totalEarnings

\* C5: for every profile, bountiesCompleted <= bountiesClaimed and
\* 0 <= successRate <= 100.
C5_RateBounds ==
  aggDone =>
    \A i \in DOMAIN aggResult :
      /\ aggResult[i].bountiesCompleted <= aggResult[i].bountiesClaimed
      /\ 0 <= aggResult[i].successRate
      /\ aggResult[i].successRate <= 100

\* A profile with some but not all of its bounties completed.
C5_Witness ==
  /\ aggDone
  /\ \E i \in DOMAIN aggResult :
       /\ 0 < aggResult[i].bountiesCompleted
       /\ aggResult[i].bountiesCompleted < aggResult[i].bountiesClaimed
       /\ aggResult[i].successRate = 50

\* The payment amount of a bounty, in micro-units: grossAmount, else
\* grossReward, else 0.
PaymentAmount(b) ==
  IF b.payment.present /\ b.payment.grossAmount # <<>> THEN Number(b.payment.grossAmount)
  ELSE IF b.payment.present /\ b.payment.grossReward # <<>> THEN Number(b.payment.grossReward)
  ELSE 0

RECURSIVE CompletedSum(_, _)
CompletedSum(bounties, k) ==
  IF bounties = <<>> THEN 0
  ELSE (IF /\ Head(bounties).claimedBy # <<>>
           /\ toLowerCase(Head(bounties).claimedBy) = k
           /\ Head(bounties).status = "completed"
        THEN PaymentAmount(Head(bounties)) ELSE 0)
       + CompletedSum(Tail(bounties), k)

\* C9: totalEarnings is the sum of the payment amounts of the address's
\* bounties whose status is exactly "completed" (in units of 1/1e6); a bounty
\* of any other status adds nothing and has reward 0 in its history entry.
C9_EarningsOnlyCompleted ==
  aggDone =>
    \A i \in DOMAIN aggResult :
      /\ aggResult[i].totalEarnings =
           CompletedSum(aggBounties, toLowerCase(aggResult[i].address))
      /\ \A h \in DOMAIN aggResult[i].history :
           aggResult[i].history[h].status # "completed"
             => aggResult[i].history[h].reward = 0

\* One address with a completed, paid bounty and a claimed bounty that also
\* carries a payment: only the first is counted.
C9_Witness ==
  /\ aggDone
  /\ \E i \in DOMAIN aggResult :
       /\ aggResult[i].totalEarnings = 5 * MicroPerUnit
       /\ Len(aggResult[i].history) = 2
       /\ \E h \in DOMAIN aggResult[i].history :
            /\ aggResult[i].history[h].status = "claimed"
            /\ aggResult[i].history[h].reward = 0
       /\ \E j \in DOMAIN aggBounties :
            /\ aggBounties[j].status = "claimed"
            /\ aggBounties[j].payment.present
            /\ toLowerCase(aggBounties[j].claimedBy) = toLowerCase(aggResult[i].address)

\* ------------------------------------------------ registry reader claims
\* C6: fetchOnChainReputation(X) never raises and returns a structure with
\* address X; the score is the read's value or 0 when that read failed, the
\* feedback is the read's list or empty when that read failed or gave no
\* list, each whatever the other read did.
C6_ReadsFailIndependently ==
  repPhase = "done" =>
    /\ ~repResult.raised
    /\ repResult.value.address = repAddress
    /\ repResult.value.reputationScore =
         (IF repScoreRead.status = "rejected" THEN 0 ELSE repScoreRead.value)
    /\ repResult.value.feedback =
         (IF repFeedbackRead.status = "rejected" \/ ~repFeedbackRead.isArray
          THEN <<>> ELSE repFeedbackRead.value)

\* The score read failed and the feedback read returned entries.
C6_Witness ==
  /\ repPhase = "done"
  /\ repScoreRead.status = "rejected"
  /\ repFeedbackRead.status = "fulfilled"
  /\ repResult.value.reputationScore = 0
  /\ Len(repResult.value.feedback) = 1

\* C10: the enumeration returns an empty mapping when the count read fails or
\* the count is 0; otherwise it reads exactly the indices 0 .. min(count, 50)-1
\* and the mapping has one entry, keyed by the lower-cased address, for each
\* of those indices whose getAgentByIndex read succeeded, and no other entry.
C10_EnumerationClamped ==
  enumPhase = "done" =>
    LET failed == enumReg.countRead.status = "rejected"
        count == enumReg.countRead.value
        wanted == IF failed \/ count = 0 THEN {}
                  ELSE {i \in 0..(count - 1) : i < 50}
        found == {toLowerCase(AgentAddrAt(enumReg, i)) : i \in wanted \ enumReg.indexFails}
    IN /\ enumIndexReads = wanted
       /\ MapKeys(enumMap) = found
       /\ Cardinality(MapKeys(enumMap)) = Len(enumMap)
       /\ \A i \in DOMAIN enumMap :
            enumMap[i].key = toLowerCase(enumMap[i].value.address)

\* A registry of more than 50 agents, with one failing index read.
C10_Witness ==
  /\ enumPhase = "done"
  /\ enumReg.countRead.status = "fulfilled"
  /\ enumReg.countRead.value = 51
  /\ enumReg.indexFails = {1}
  /\ ~enumReg.dup
  /\ Len(enumMap) = 49

\* ----------------------------------------------------------- cache claims
InFlight == {c \in CallIds : calls[c].pc \in {"fetching", "backfill"}}

\* C1: a refresh is not duplicated: at most one refresh pipeline (bounty
\* fetch, enumeration, backfill, aggregation) is running at any time.
C1_SingleRefreshInFlight == Cardinality(InFlight) <= 1

\* C2: getAgents is memoized for 60 seconds from the completion of the last
\* refresh. A call starts a refresh (enters "fetching", the state in which
\* the bounty and registry reads are in flight) only when nothing is stored
\* or 60000 ms or more have passed since the last store; a call is answered
\* from the cache only when a set is stored and less than 60000 ms have
\* passed since it was stored, and then it gets the stored set, launches
\* nothing and leaves the cache as it is.
C2_MemoizedFromCompletion ==
  [][LET fresh == cachedAgents.stored /\ now - lastStoreAt < 60000
     IN /\ \A c \in CallIds :
             (calls[c].pc = "idle" /\ calls'[c].pc = "fetching") => ~fresh
        /\ (lastResponse' # lastResponse /\ lastResponse'.hit) =>
             /\ fresh
             /\ calls' = calls
             /\ cachedAgents' = cachedAgents
             /\ cacheTime' = cacheTime
             /\ lastResponse' = Respond(lastResponse'.path, TRUE, cachedAgents.agents)]_vars

\* A call answered from a set stored 59999 ms earlier by a refresh that
\* completed after time had passed.
C2_Witness ==
  /\ cachedAgents.stored
  /\ lastStoreAt > 0
  /\ now - lastStoreAt = CACHE_TTL - 1
  /\ lastResponse.hit
  /\ lastResponse.path.endpoint = "agents"
  /\ lastResponse.body = cachedAgents.agents

\* C7: no failure of the bounty request or of the enumeration aborts a
\* refresh or reaches the caller of getAgents (whose handler then answers
\* 502).
C7_RefreshNeverAborted == lastResponse.status # 502

\* C8: the single-profile lookup answers with the profile whose address
\* matches the requested one case-insensitively in the current aggregation,
\* and with not-found exactly when the current aggregation holds no such
\* profile.
C8_LookupMatchesAggregation ==
  [][(lastResponse' # lastResponse /\ lastResponse'.path.endpoint = "agent") =>
       LET current == cachedAgents'.agents
           matches == {i \in DOMAIN current :
                         toLowerCase(current[i].address) =
                           toLowerCase(lastResponse'.path.addr)}
       IN IF matches = {}
          THEN lastResponse'.status = 404
          ELSE /\ lastResponse'.status = 200
               /\ \E i \in matches : lastResponse'.body = <<current[i]>>]_vars

\* The matching itself is right: whenever getAgents returned to the lookup
\* (the answer is not 502), the answer is the matching profile of the current
\* aggregation, or not-found when there is none.
LookupMatchesWhenReturned ==
  [][(/\ lastResponse' # lastResponse
      /\ lastResponse'.path.endpoint = "agent"
      /\ lastResponse'.status # 502) =>
       LET current == cachedAgents'.agents
           matches == {i \in DOMAIN current :
                         toLowerCase(current[i].address) =
                           toLowerCase(lastResponse'.path.addr)}
       IN IF matches = {}
          THEN lastResponse'.status = 404
          ELSE /\ lastResponse'.status = 200
               /\ \E i \in matches : lastResponse'.body = <<current[i]>>]_vars

\* ------------------------------------------------------- publication claims
ClaimedBy(bounties, k) ==
  {i \in DOMAIN bounties :
     bounties[i].claimedBy # <<>> /\ toLowerCase(bounties[i].claimedBy) = k}

\* agents is a whole aggregation of bounties and onChain: one finished
\* profile per claimant and per key of the map, in descending order.
WholeAggregation(agents, bounties, onChain) ==
  LET want == Claimants(bounties) \cup MapKeys(onChain)
  IN /\ \A k \in want : Cardinality(ProfilesOf(agents, k)) = 1
     /\ \A i \in DOMAIN agents :
          LET k == toLowerCase(agents[i].address)
          IN /\ k \in want
             /\ agents[i].bountiesClaimed = Cardinality(ClaimedBy(bounties, k))
             /\ Len(agents[i].history) = Cardinality(ClaimedBy(bounties, k))
             /\ agents[i].onChainReputation =
                  (IF MapHas(onChain, k) THEN MapGet(onChain, k).reputationScore ELSE 0)
     /\ \A i, j \in DOMAIN agents :
          i < j =>
            /\ agents[i].onChainReputation >= agents[j].onChainReputation
            /\ (agents[i].onChainReputation = agents[j].onChainReputation
                  => agents[i].totalEarnings >= agents[j].totalEarnings)

\* C11: the published cache is either empty (nothing computed yet) or the
\* complete, sorted output of one aggregateAgents call on the title-filtered
\* bounty list and the backfilled on-chain map of one refresh; it changes
\* only when a refresh completes, and then it is replaced as a whole by that
\* refresh's output.
C11_PublishedWhole ==
  /\ [](IF cachedAgents.stored
        THEN /\ cachedAgents.agents = aggregateAgents(published.bounties, published.onChain)
             /\ WholeAggregation(cachedAgents.agents, published.bounties, published.onChain)
             /\ \A i \in DOMAIN published.bounties : published.bounties[i].title # ""
        ELSE cachedAgents.agents = <<>> /\ cacheTime = 0)
  /\ [][(cachedAgents' # cachedAgents \/ published' # published) =>
          \E c \in CallIds :
            /\ calls[c].pc = "backfill"
            /\ calls'[c].pc = "idle"
            /\ cachedAgents'.stored
            /\ published'.bounties = calls[c].bounties
            /\ \A i \in DOMAIN calls[c].onChain :
                 /\ MapHas(published'.onChain, calls[c].onChain[i].key)
                 /\ MapGet(published'.onChain, calls[c].onChain[i].key) =
                      calls[c].onChain[i].value
            /\ MapKeys(published'.onChain) \subseteq
                 MapKeys(calls[c].onChain) \cup Claimants(calls[c].bounties)]_vars

\* A set of two profiles, built from a bounty list and an enumerated map, is
\* published while another refresh is in progress, and the sort moved the
\* enumerated agent ahead of the claimant.
C11_Witness ==
  /\ cachedAgents.stored
  /\ Len(cachedAgents.agents) = 2
  /\ published.bounties # <<>>
  /\ cachedAgents.agents # aggregateAgentsUnsorted(published.bounties, published.onChain)
  /\ \E c \in CallIds : calls[c].pc = "backfill"

\* --------------------------------------------------------- backfill claims
\* The result of a settled individual read has something to store.
HasFootprint(read) ==
  \/ read.score.status = "fulfilled" /\ read.score.value # 0
  \/ /\ read.feedback.status = "fulfilled"
     /\ read.feedback.isArray
     /\ Len(read.feedback.value) >= 1

\* C12: an individual read is issued exactly for the distinct lower-cased
\* claimants of the title-filtered bounty list that the enumerated map does
\* not hold; its result is in the map exactly if it has non-zero reputation
\* or at least one feedback entry, whatever the other reads did; and once
\* all reads have settled the refresh aggregates, a claimant whose read
\* failed or returned all-zero data having a profile with onChainReputation 0.
C12_BackfillSelective ==
  bfPhase # "idle" =>
    /\ \A i \in DOMAIN bfBounties : bfBounties[i].title # ""
    /\ {bfIssued[i] : i \in DOMAIN bfIssued} = Claimants(bfBounties) \ MapKeys(bfEnumerated)
    /\ \A i, j \in DOMAIN bfIssued : bfIssued[i] = bfIssued[j] => i = j
    /\ \A i \in DOMAIN bfEnumerated :
         /\ MapHas(bfOnChain, bfEnumerated[i].key)
         /\ MapGet(bfOnChain, bfEnumerated[i].key) = bfEnumerated[i].value
    /\ MapKeys(bfOnChain) \subseteq
         MapKeys(bfEnumerated) \cup {bfIssued[i] : i \in DOMAIN bfIssued}
    /\ \A i \in DOMAIN bfIssued :
         /\ MapHas(bfOnChain, bfIssued[i]) <=>
              (bfReads[i] # PendingRead /\ HasFootprint(bfReads[i]))
         /\ MapHas(bfOnChain, bfIssued[i]) =>
              /\ MapGet(bfOnChain, bfIssued[i]).address = bfIssued[i]
              /\ MapGet(bfOnChain, bfIssued[i]).reputationScore =
                   (IF bfReads[i].score.status = "fulfilled"
                    THEN bfReads[i].score.value ELSE 0)
              /\ Len(MapGet(bfOnChain, bfIssued[i]).feedback) =
                   (IF bfReads[i].feedback.status = "fulfilled"
                    THEN Len(bfReads[i].feedback.value) ELSE 0)
    /\ bfPhase = "done" =>
         \A i \in DOMAIN bfIssued :
           /\ Cardinality(ProfilesOf(bfResult, bfIssued[i])) = 1
           /\ ~HasFootprint(bfReads[i]) =>
                \A p \in ProfilesOf(bfResult, bfIssued[i]) :
                  /\ bfResult[p].onChainReputation = 0
                  /\ bfResult[p].recentFeedback = <<>>

\* Two claimants were read: the first read failed and nothing was stored for
\* it, the second returned a reputation of 3 and was stored, and both have a
\* profile in the output, the first with onChainReputation 0.
C12_Witness ==
  /\ bfPhase = "done"
  /\ Len(bfIssued) = 2
  /\ bfReads[1].score.status = "rejected"
  /\ bfReads[1].feedback.status = "rejected"
  /\ bfReads[2].score.status = "fulfilled"
  /\ bfReads[2].score.value = 3
  /\ MapKeys(bfOnChain) = {bfIssued[2]}
  /\ Len(bfResult) = 2
  /\ bfResult[1].onChainReputation = 3
  /\ bfResult[2].onChainReputation = 0
  /\ toLowerCase(bfResult[2].address) = bfIssued[1]

\* ---------------------------------------------------------- profile claims
RECURSIVE Occurrences(_, _)
Occurrences(tags, t) ==
  IF tags = <<>> THEN 0
  ELSE (IF Head(tags) = t THEN 1 ELSE 0) + Occurrences(Tail(tags), t)

\* The number of times the tag t occurs on the bounties claimed by k.
RECURSIVE TagOccurrences(_, _, _)
TagOccurrences(bounties, k, t) ==
  IF bounties = <<>> THEN 0
  ELSE (IF Head(bounties).claimedBy # <<>> /\ toLowerCase(Head(bounties).claimedBy) = k
        THEN Occurrences(Head(bounties).tags, t) ELSE 0)
       + TagOccurrences(Tail(bounties), k, t)

AllTags == UNION {{l[i] : i \in DOMAIN l} : l \in TagLists}

TagsCounted(names) ==
  aggDone =>
    \A i \in DOMAIN aggResult : \A t \in names :
      LET n == TagOccurrences(aggBounties, toLowerCase(aggResult[i].address), t)
      IN IF n = 0 THEN ~MapHas(aggResult[i].tags, t)
         ELSE /\ MapHas(aggResult[i].tags, t)
              /\ MapGet(aggResult[i].tags, t) = TagNumber(n)

\* C13: for every profile and every tag t, tags[t] is the number of
\* occurrences of t over all bounties claimed by the address, whatever their
\* status, and a tag that occurs on none of them is absent.
C13_TagsCounted == TagsCounted(AllTags)

\* The counts are right for every tag that is not a name objects inherit.
TagsCountedOwnNames == TagsCounted(AllTags \ InheritedNames)

\* Two tags counted twice each over a completed and a claimed bounty.
TagsCountedOwnNamesWitness ==
  /\ aggDone
  /\ \E i \in DOMAIN aggResult :
       /\ MapKeys(aggResult[i].tags) = {"ts", "rust"}
       /\ MapGet(aggResult[i].tags, "ts") = TagNumber(2)
       /\ MapGet(aggResult[i].tags, "rust") = TagNumber(2)
       /\ \E h, g \in DOMAIN aggResult[i].history :
            /\ aggResult[i].history[h].status = "completed"
            /\ aggResult[i].history[g].status = "claimed"

\* C14: every profile is seeded from the on-chain entry under its
\* lower-cased address: onChainReputation is the entry's reputationScore (0
\* without an entry) and recentFeedback its last min(10, n) feedback entries
\* in order (empty without an entry); a key of the map that claimed no
\* bounty has a profile with zero counts, earnings and rate and empty tags
\* and history.
C14_SeededFromOnChain ==
  aggDone =>
    \A i \in DOMAIN aggResult :
      LET k == toLowerCase(aggResult[i].address)
          p == aggResult[i]
      IN /\ IF MapHas(aggOnChain, k)
            THEN LET f == MapGet(aggOnChain, k).feedback
                     n == IF Len(f) < 10 THEN Len(f) ELSE 10
                 IN /\ p.onChainReputation = MapGet(aggOnChain, k).reputationScore
                    /\ Len(p.recentFeedback) = n
                    /\ \A j \in 1..n : p.recentFeedback[j] = f[Len(f) - n + j]
            ELSE p.onChainReputation = 0 /\ p.recentFeedback = <<>>
         /\ k \notin Claimants(aggBounties) =>
              /\ MapHas(aggOnChain, k)
              /\ p.bountiesClaimed = 0
              /\ p.bountiesCompleted = 0
              /\ p.totalEarnings = 0
              /\ p.successRate = 0
              /\ p.tags = <<>>
              /\ p.history = <<>>

\* A claimant written in upper case seeded from an entry of eleven feedback
\* entries, next to an on-chain agent that claimed nothing.
C14_Witness ==
  /\ aggDone
  /\ Len(aggResult) = 2
  /\ \E i, j \in DOMAIN aggResult :
       /\ aggResult[i].address = <<"A", "b">>
       /\ aggResult[i].bountiesClaimed > 0
       /\ MapHas(aggOnChain, <<"a", "b">>)
       /\ Len(MapGet(aggOnChain, <<"a", "b">>).feedback) = FeedbackKeep + 1
       /\ Len(aggResult[i].recentFeedback) = FeedbackKeep
       /\ aggResult[i].recentFeedback[1].timestamp = 2
       /\ aggResult[j].address = <<"e", "F">>
       /\ aggResult[j].bountiesClaimed = 0
       /\ aggResult[j].onChainReputation = 42

\* ------------------------------------------------------------- rate claims
CompletedBy(bounties, k) ==
  {i \in ClaimedBy(bounties, k) : bounties[i].status = "completed"}

\* round(100 * completed / claimed), halves rounded up, in exact arithmetic.
ExactRate(completed, claimed) == (200 * completed + claimed) \div (2 * claimed)

\* C15: for every profile, successRate is 0 when bountiesClaimed = 0 and
\* otherwise the integer round(100 * bountiesCompleted / bountiesClaimed)
\* with halves rounded up, the counts being those of the whole bounty list.
C15_RateRoundsHalfUp ==
  aggDone =>
    \A i \in DOMAIN aggResult :
      LET k == toLowerCase(aggResult[i].address)
          claimed == Cardinality(ClaimedBy(aggBounties, k))
          completed == Cardinality(CompletedBy(aggBounties, k))
      IN /\ aggResult[i].bountiesClaimed = claimed
         /\ aggResult[i].bountiesCompleted = completed
         /\ aggResult[i].successRate =
              (IF claimed = 0 THEN 0 ELSE ExactRate(completed, claimed))

\* The rate is computed from the final counts and is the exact rate or one
\* less.
RateWithinOneOfExact ==
  aggDone =>
    \A i \in DOMAIN aggResult :
      LET k == toLowerCase(aggResult[i].address)
          claimed == Cardinality(ClaimedBy(aggBounties, k))
          completed == Cardinality(CompletedBy(aggBounties, k))
      IN /\ aggResult[i].bountiesClaimed = claimed
         /\ aggResult[i].bountiesCompleted = completed
         /\ claimed > 0 =>
              /\ aggResult[i].successRate <= ExactRate(completed, claimed)
              /\ aggResult[i].successRate >= ExactRate(completed, claimed) - 1

\* A half that is rounded up: 1 of 8 is 12.5, reported as 13.
RateWithinOneOfExactWitness ==
  /\ aggDone
  /\ Len(aggBounties) = 8
  /\ aggResult[1].bountiesCompleted = 1
  /\ aggResult[1].successRate = 13

\* ------------------------------------------------------ completion claims
\* C16: once a refresh has started (its call awaits the bounty request and
\* the enumeration), and every read it issues eventually settles, the
\* refresh eventually stores a result and its call returns.
C16_RefreshRunsToCompletion ==
  \A c \in CallIds :
    (calls[c].pc = "fetching") ~> (calls[c].pc = "idle" /\ cachedAgents.stored)

\* Every call that started a refresh eventually returns or throws.
CallsEventuallyEnd ==
  \A c \in CallIds : (calls[c].pc # "idle") ~> (calls[c].pc = "idle")

\* A refresh whose bounty value could be filtered always stores: a call
\* leaves the backfill step only by storing its result and the time.
BackfillEndsByStoring ==
  [][\A c \in CallIds :
       (calls[c].pc = "backfill" /\ calls'[c].pc # "backfill") =>
         /\ calls'[c].pc = "idle"
         /\ cachedAgents'.stored
         /\ cacheTime' = now
         /\ published'.bounties = calls[c].bounties]_vars

\* C17: the published cache is never replaced by the result of a refresh
\* that started earlier than the refresh whose result it replaces.
C17_NoOlderRefreshOverwrites ==
  [][\A c \in CallIds :
       (calls[c].pc = "backfill" /\ calls'[c].pc = "idle" /\ cachedAgents.stored)
         => c \notin olderThanCache]_vars

====
